---------------------------- MODULE Spec2Model ----------------------------
(***************************************************************************)
(* A model of code.pyret.org's modal prompt (src/unnamed/part_000) and of  *)
(* the grading dashboard's request layer (src/src/web/js/cpo-grade.js).    *)
(*                                                                         *)
(* SpecPrompt : Prompt instances sharing #promptModal and the document.    *)
(* SpecGrade  : window.storageAPI, getFile, promiseRetry and               *)
(*              gatherSubmissions over a two-level remote folder tree.     *)
(***************************************************************************)
EXTENDS Integers, Sequences, FiniteSets, TLC

(***************************************************************************)
(* Bounds of the model.                                                    *)
(***************************************************************************)
NumPrompts == 2     \* Prompt instances constructed on the page
MaxShows == 2       \* show() calls that pass the guard, over the whole run
NumStudents == 2    \* student folders in the assignment folder, at most
MaxFailing == 1     \* remote requests that fail their first attempt, at most
MaxCoals == 1       \* lines of the form's coals field, at most
MaxLoops == 2       \* run-all header clicks, over the whole run
MaxManual == 2      \* clicks of the user on table cells, over the whole run

\* promiseRetry's max, as getFile and getFilesInFolder pass it.
RetryMax == 5

VARIABLES
  \* ---- src/unnamed/part_000 ----
  options,          \* this.options of each instance: style, hideSubmit, length
  deferred,         \* this.deferred of each instance: 0 (undefined) or a future
  futures,          \* every Q.defer() made by show(), in the order of the calls
  promptQueue,      \* callbacks passed to promptQueue.then and not yet run
  closeHandlers,    \* click handlers bound on the modal's .close button
  submitHandlers,   \* click handlers bound on the modal's .submit button
  clickHandlers,    \* docClick handlers bound on document
  keydownHandlers,  \* docKeydown handlers bound on document
  display,          \* the modal's css display
  submitShown,      \* whether the .submit button is shown
  title,            \* whose options.title the modal header holds (0: none)
  modalBody,        \* whose this.elts the .modal-body holds (0: none)
  elts,             \* whether this.elts of each instance holds its option elements
  isCompiled,       \* this.isCompiled of each instance
  checked,          \* the checked radio among an instance's compiled options
  displayed,        \* history: futures whose queued callback has run
  lastEvent,        \* history: the last operation and what it did
  newPrompt,        \* the last new Prompt(options): its argument and outcome
  \* ---- src/src/web/js/cpo-grade.js ----
  storageAPI,       \* window.storageAPI: "pending", "resolved" or "rejected"
  api,              \* var api: "undefined" or "set"
  nInScope,         \* the free identifier n of line 31: "unread" until it is
                    \* first evaluated, then "bound" or "unbound"
  req,              \* each remote request: its promise and promiseRetry calls
  getFileCall,      \* what getFile returned to loadAndRenderSubmissions
  remoteStudents,   \* the student folders of the assignment folder
  remoteDirs,       \* the names of each student folder's children, in order
  gather,           \* gatherSubmissions: "idle", "listing", "fanout"
  gatherDeferred,   \* the deferred gatherSubmissions returns
  submissions,      \* var submissions: student name -> files, Absent: no key
  student,          \* each student's chain of then-callbacks
  firstStored,      \* history: the student whose chain ended first (0: none)
  testSuite,        \* what getFile(suiteID) resolved with: "file" or "null"
  coals,            \* var coals: the number of lines of the coals field
  listing,          \* the resolved submissions: student -> the names of its files
  targets,          \* submissions after toTargets: student -> its targets
  tbl,              \* #tbl: the th and td in it, their classes, colour, handler
  pending,          \* target.eval calls whose completion handler is still to run
  stuck,            \* whether some run ended without its completion handler
  loops,            \* the runTDs invocations: list, index, clicks, interval
  manual,           \* history: the clicks of the user on cells so far
  out               \* the text of #out

promptVars == <<options, deferred, futures, promptQueue, closeHandlers,
                submitHandlers, clickHandlers, keydownHandlers, display,
                submitShown, title, modalBody, elts, isCompiled, checked,
                displayed, lastEvent>>

gradeVars == <<storageAPI, api, nInScope, req, getFileCall, remoteStudents,
               remoteDirs, gather, gatherDeferred, submissions, student,
               firstStored>>

ctorVars == <<newPrompt>>

tableVars == <<testSuite, coals, listing, targets, tbl, pending, stuck, loops,
               manual, out>>

vars == <<promptVars, gradeVars, ctorVars, tableVars>>

----------------------------------------------------------------------------
(***************************************************************************)
(* The dashboard's remote requests and values                              *)
(***************************************************************************)
Students == 1..NumStudents

\* The listings a student folder may have: empty, a near-miss only, the
\* folder alone, the folder after a near-miss, and two folders of the name.
DirLists ==
  { <<>>,
    <<"Final-Submission">>,
    <<"final-submission">>,
    <<"Final-Submission", "final-submission">>,
    <<"final-submission", "final-submission">> }

\* The remote requests of one page load.
File == <<"file", 0>>              \* api.getFileById(suiteID)
Top == <<"top", 0>>                \* api.getFilesInFolder(submissionsFolderId)
StudentDir(s) == <<"student", s>>  \* api.getFilesInFolder(student.getUniqueId())
FinalDir(s) == <<"final", s>>      \* api.getFilesInFolder(dir.getUniqueId())

ReqIds == {File, Top} \cup {StudentDir(s) : s \in Students}
                      \cup {FinalDir(s) : s \in Students}

\* How many attempts of a request the remote fails before it answers:
\* RetryMax + 1 is a request that fails on every attempt the caller is
\* entitled to make.
FileFailCounts == 0..(RetryMax + 1)
ListingFailCounts == {0, RetryMax + 1}

\* What the remote answers request r with, and no answer.
Answer(r) == <<"answer", r>>
NoAnswer == <<"none", File>>

NoRequest == [promise |-> "none", k |-> 0, attempts |-> 0, calls |-> <<>>]

\* The values of the submissions object and of a student's chain.
FilesOf(s, d) == [tag |-> "files", student |-> s, dir |-> d]
FilesNull == [tag |-> "null", student |-> 0, dir |-> 0]
Absent == [tag |-> "absent", student |-> 0, dir |-> 0]

NoStudent == [pc |-> "idle", dir |-> 0, files |-> Absent]

----------------------------------------------------------------------------
(***************************************************************************)
(* The dashboard's table: targets, cells and their marks                   *)
(***************************************************************************)
\* The names the form gives in #implementation and #test, and any other name.
ImplName == "impl.arr"
TestName == "tests.arr"
OtherName == "notes.txt"

\* A student's entry in the resolved submissions object: no key, or the names
\* of the files of its final-submission folder, in the order listed.
NoKey == [key |-> FALSE, files |-> <<>>]
Files(names) == [key |-> TRUE, files |-> names]

FileLists ==
  { <<>>,
    <<ImplName>>,
    <<TestName>>,
    <<OtherName>>,
    <<ImplName, OtherName>>,
    <<ImplName, TestName>>,
    <<TestName, ImplName>>,
    <<OtherName, TestName, ImplName>> }

\* The names of the targets: "test", "gold", "coal-" + i.
TestTarget == <<"test", 0>>
GoldTarget == <<"gold", 0>>
CoalTarget(i) == <<"coal", i>>

\* submissions[student] before toTargets, after it (null or the targets), and
\* for a student without a key.
Unconverted == [tag |-> "files", list |-> <<>>]
NullTargets == [tag |-> "null", list |-> <<>>]
NoTargets == [tag |-> "nokey", list |-> <<>>]

\* getSubmission(submission, name): the first file of that name, 0 for null.
getSubmission(submission, name) ==
  IF \E i \in 1..Len(submission) : submission[i] = name
  THEN CHOOSE i \in 1..Len(submission) :
         /\ submission[i] = name
         /\ \A j \in 1..(i - 1) : submission[j] # name
  ELSE 0

\* makeRunner(fileObj, fileName, fileID): a runner, or null for a null file.
makeRunner(fileObj) == IF fileObj # "null" THEN "runner" ELSE "null"

\* { name: ..., eval: ... }: result is not a property yet.
Target(name, eval) == [name |-> name, eval |-> eval, result |-> "undefined"]

\* A test that is content with one of the two files.
BothPresent_Either(testSubmission, implSubmission) ==
  testSubmission # 0 \/ implSubmission # 0

\* testSubmission !== null && implSubmission !== null
BothPresent(testSubmission, implSubmission) ==
  testSubmission # 0 /\ implSubmission # 0

\* toTargets(submission), with the testSuite and coals of processSubmission.
toTargets(submission, suite, ncoals) ==
  LET implSubmission == getSubmission(submission, ImplName)
      testSubmission == getSubmission(submission, TestName)
  IN IF BothPresent(testSubmission, implSubmission)
     THEN [tag |-> "targets",
           list |-> <<Target(TestTarget, makeRunner(suite)),
                      Target(GoldTarget, makeRunner("file"))>>
                    \o [i \in 1..ncoals |->
                          Target(CoalTarget(i - 1), makeRunner("file"))]]
     ELSE NullTargets

\* The th and td elements of #tbl: <<0, 0>> the "student" th, <<0, j>> the th
\* of target j, <<s, 0>> the first td of student s's row, <<s, j>> its j-th
\* cell after that.
Cells == (0..NumStudents) \X (0..(2 + MaxCoals))

TargetCells == {c \in Cells : c[1] >= 1 /\ c[2] >= 1}

\* An element as created: its classes, no background colour set, and the
\* click handler bound to it.
Element(cls, onclick) == [cls |-> cls, colour |-> "none", onclick |-> onclick]

\* renderSubmissionsHeader's colspan: the length of the first entry that is
\* not null (every such entry has the same length).
Colspan(tg) ==
  IF \E s \in Students : tg[s].tag = "targets"
  THEN Len(tg[CHOOSE s \in Students : tg[s].tag = "targets"].list)
  ELSE 0

\* The elements renderSubmissionsHeader and renderSubmissionsRows append:
\* the "student" th and one th for each target name, a row for every key,
\* with a first td and a td for each target, or two td for a null entry.
Appended(tg, c) ==
  IF c[1] = 0
  THEN c[2] <= Colspan(tg)
  ELSE CASE tg[c[1]].tag = "targets" -> c[2] <= Len(tg[c[1]].list)
         [] tg[c[1]].tag = "null" -> c[2] <= 1
         [] OTHER -> FALSE

\* renderSubmissionsHeader and renderSubmissionsRows.
renderSubmissions(tg) ==
  [c \in {d \in Cells : Appended(tg, d)} |->
     IF c[1] = 0 THEN Element({"def"}, "runTDs")
     ELSE IF tg[c[1]].tag = "null" THEN Element({"nohov"}, "none")
     ELSE IF c[2] = 0 THEN Element({"def"}, "runTDs")
     ELSE Element({"def"}, "makeTarget")]

\* #tbl with nothing appended.
NoTable == [c \in {} |-> Element({}, "none")]

\* The td elements of table t that makeTarget's handler is bound to, and
\* none of them with a run in flight.
RunCells(t) == {c \in DOMAIN t : t[c].onclick = "makeTarget"}

NoRuns(t) == [c \in RunCells(t) |-> 0]

\* The text of #out: nothing written, or the blob, a student's key holding
\* the entries of its object.
NoBlob == [s \in Students |-> [key |-> FALSE, entries |-> {}]]
NoOut == [written |-> FALSE, blob |-> NoBlob]

\* An export that has an entry for every target, run or not.
HasResult_Always(f) == TRUE

\* f.result !== undefined
HasResult(f) == f.result # "undefined"

\* generateJSON(submissions): blob[sk[i]] = student for every key, the
\* object filled from the targets with a result when the entry is not null.
generateJSON(tg) ==
  [s \in Students |->
     IF tg[s].tag = "nokey"
     THEN [key |-> FALSE, entries |-> {}]
     ELSE [key |-> TRUE,
           entries |-> {[name |-> tg[s].list[j].name,
                         file |-> tg[s].list[j].result] :
                          j \in {k \in 1..Len(tg[s].list) :
                                   HasResult(tg[s].list[k])}}]]

\* The page with no table rendered.
TableIdle ==
  /\ testSuite = "file"
  /\ coals = 0
  /\ listing = [s \in Students |-> NoKey]
  /\ targets = [s \in Students |-> NoTargets]
  /\ tbl = NoTable
  /\ pending = NoRuns(NoTable)
  /\ stuck = FALSE
  /\ loops = <<>>
  /\ manual = 0
  /\ out = NoOut

----------------------------------------------------------------------------
(***************************************************************************)
(* ModalPrompt                                                             *)
(***************************************************************************)
Prompts == 1..NumPrompts

\* JavaScript values as the constructor's tests see them: whether the value is
\* truthy, and what typeof value.length is, with the length when a number.
JsValue(kind, truthy, lengthType, length) ==
  [kind |-> kind, truthy |-> truthy, lengthType |-> lengthType,
   length |-> length]

\* Values a caller may put in options.options.
OptionsOptions ==
  { JsValue("undefined", FALSE, "undefined", 0),
    JsValue("null", FALSE, "undefined", 0),
    JsValue("false", FALSE, "undefined", 0),
    JsValue("zero", FALSE, "undefined", 0),
    JsValue("number", TRUE, "undefined", 0),
    JsValue("string", FALSE, "number", 0),
    JsValue("string", TRUE, "number", 2),
    JsValue("object", TRUE, "undefined", 0),
    JsValue("object", TRUE, "string", 0),
    JsValue("array", TRUE, "number", 0),
    JsValue("array", TRUE, "number", 1),
    JsValue("array", TRUE, "number", 2) }

\* Values of options.style, "undefined" for a missing one.
OptionsStyles == {"radio", "tiles", "Radio", "checkbox", "undefined"}

\* Arguments of new Prompt(options): nothing, null, a primitive (none of the
\* fields read is defined on it), or an object.
PromptArg(kind, truthy, style, opts, hideSubmit) ==
  [kind |-> kind, truthy |-> truthy, style |-> style, options |-> opts,
   hideSubmit |-> hideSubmit]

PromptArgs ==
  { PromptArg(k, FALSE, "undefined", JsValue("undefined", FALSE, "undefined", 0),
              FALSE) : k \in {"undefined", "null", "zero"} }
  \cup
  { PromptArg("string", TRUE, "undefined",
              JsValue("undefined", FALSE, "undefined", 0), FALSE) }
  \cup
  { PromptArg("object", TRUE, st, o, h) :
      st \in OptionsStyles, o \in OptionsOptions, h \in BOOLEAN }

NoCall == [called |-> FALSE,
           arg |-> PromptArg("undefined", FALSE, "undefined",
                             JsValue("undefined", FALSE, "undefined", 0), FALSE),
           threw |-> "none",
           this |-> [style |-> "undefined", hideSubmit |-> FALSE, length |-> 0,
                     deferred |-> 0, elts |-> "none", rendered |-> FALSE,
                     isCompiled |-> FALSE]]

\* A style test that knows one style only.
StyleOk_RadioOnly(style) == style = "radio"

\* !(options.style !== "radio" && options.style !== "tiles")
StyleOk(style) == style = "radio" \/ style = "tiles"

\* The condition of the constructor's if: the || chain, left to right.
InvalidPromptOptions(o) ==
  \/ ~o.truthy
  \/ ~StyleOk(o.style)
  \/ ~o.options.truthy
  \/ o.options.lengthType # "number"
  \/ o.options.length = 0

\* function Prompt(options): throws, or sets the fields of this. The
\* container this.elts is created empty, a table for radio and a div
\* otherwise; this.deferred is not assigned.
Prompt(o) ==
  IF InvalidPromptOptions(o)
  THEN [NoCall EXCEPT !.called = TRUE, !.arg = o,
                      !.threw = "Invalid Prompt Options"]
  ELSE [NoCall EXCEPT !.called = TRUE, !.arg = o,
                      !.this = [style |-> o.style,
                                hideSubmit |-> o.hideSubmit,
                                length |-> o.options.length,
                                deferred |-> 0,
                                elts |-> IF o.style = "radio" THEN "table"
                                                              ELSE "div",
                                rendered |-> FALSE,
                                isCompiled |-> FALSE]]

\* Configurations the constructor accepts: either style, the submit button
\* shown or hidden, one option or several.
ValidOptions ==
  { [style |-> "radio", hideSubmit |-> FALSE, length |-> 2],
    [style |-> "radio", hideSubmit |-> TRUE, length |-> 1],
    [style |-> "tiles", hideSubmit |-> FALSE, length |-> 1],
    [style |-> "tiles", hideSubmit |-> TRUE, length |-> 2] }

\* Values a show() future resolves to.
Null == [tag |-> "null", prompt |-> 0, idx |-> 0]
Undefined == [tag |-> "undefined", prompt |-> 0, idx |-> 0]
OptionValue(p, i) == [tag |-> "value", prompt |-> p, idx |-> i]

NoEvent == [kind |-> "none", prompt |-> 0, target |-> 0, expect |-> Undefined,
            raised |-> FALSE, resolved |-> {}]

Owner(f) == futures[f].owner

Pending(f) == futures[f].state = "pending"

\* The futures of instance p that nobody has resolved.
Outstanding(p) == {f \in 1..Len(futures) : Owner(f) = p /\ Pending(f)}

\* $("input[type='radio']:checked", this.modal).val()
CheckedRadioVal ==
  IF /\ modalBody # 0
     /\ elts[modalBody]
     /\ options[modalBody].style = "radio"
     /\ checked[modalBody] # 0
  THEN OptionValue(modalBody, checked[modalBody])
  ELSE Undefined

\* What a handler run reads and writes, threaded through one event's dispatch.
World == [deferred |-> deferred, futures |-> futures, display |-> display,
          elts |-> elts, clickHandlers |-> clickHandlers,
          keydownHandlers |-> keydownHandlers, raised |-> FALSE,
          resolved |-> {}]

Remove(s, x) == SelectSeq(s, LAMBDA y : y # x)

\* this.elts.empty()
clearModal(w, p) == [w EXCEPT !.elts[p] = FALSE]

\* this.deferred.resolve(v); delete this.deferred; delete this.promise
\* A TypeError when this.deferred is undefined: nothing after it runs.
ResolveAndDelete(w, p, v) ==
  IF w.deferred[p] = 0
  THEN [w EXCEPT !.raised = TRUE]
  ELSE [w EXCEPT !.futures[w.deferred[p]] =
                     IF @.state = "pending"
                     THEN [@ EXCEPT !.state = "resolved", !.value = v]
                     ELSE @,
                 !.resolved = @ \cup {w.deferred[p]},
                 !.deferred[p] = 0]

onClose(w, p) ==
  ResolveAndDelete(clearModal([w EXCEPT !.display = "none"], p), p, Null)

\* retval is read from the modal before it is hidden and cleared.
onSubmit(w, p) ==
  LET retval == IF /\ modalBody # 0
                   /\ w.elts[modalBody]
                   /\ options[modalBody].style = "radio"
                   /\ checked[modalBody] # 0
                THEN OptionValue(modalBody, checked[modalBody])
                ELSE Undefined
  IN ResolveAndDelete(clearModal([w EXCEPT !.display = "none"], p), p, retval)

\* The docClick closure of show number f, for a click whose target is the modal.
docClick(w, f) ==
  IF w.deferred[Owner(f)] # 0
  THEN LET w1 == onClose(w, Owner(f))
       IN [w1 EXCEPT !.clickHandlers = Remove(@, f)]
  ELSE w

\* The docKeydown closure of show number f, for the Escape key.
docKeydown(w, f) ==
  LET w1 == onClose(w, Owner(f))
  IN IF w1.raised THEN w1
     ELSE [w1 EXCEPT !.keydownHandlers = Remove(@, f)]

Handler(kind, w, f) ==
  CASE kind = "close" -> onClose(w, Owner(f))
    [] kind = "submit" -> onSubmit(w, Owner(f))
    [] kind = "background" -> docClick(w, f)
    [] kind = "escape" -> docKeydown(w, f)

\* jQuery.event.dispatch: the handlers bound when the event fires run in the
\* order they were bound; one that throws ends the dispatch.
RECURSIVE Dispatch(_, _, _)
Dispatch(kind, w, hs) ==
  IF hs = <<>> \/ w.raised THEN w
  ELSE Dispatch(kind, Handler(kind, w, Head(hs)), Tail(hs))

\* The instance on display with its request pending, every other future
\* already resolved; 0 when there is none.
SoleDisplayedFuture ==
  IF /\ display = "block"
     /\ modalBody # 0
     /\ deferred[modalBody] # 0
     /\ deferred[modalBody] \in displayed
     /\ \A f \in 1..Len(futures) : Pending(f) => f = deferred[modalBody]
  THEN deferred[modalBody]
  ELSE 0

\* A guard that never finds the instance busy.
AlreadyShowing_Never(p) == FALSE

\* this.deferred !== undefined
AlreadyShowing(p) == deferred[p] # 0

InitPrompt ==
  /\ options \in [Prompts -> ValidOptions]
  /\ deferred = [p \in Prompts |-> 0]
  /\ futures = <<>>
  /\ promptQueue = <<>>
  /\ closeHandlers = <<>>
  /\ submitHandlers = <<>>
  /\ clickHandlers = <<>>
  /\ keydownHandlers = <<>>
  /\ display = "none"
  /\ submitShown = TRUE
  /\ title = 0
  /\ modalBody = 0
  /\ elts = [p \in Prompts |-> FALSE]
  /\ isCompiled = [p \in Prompts |-> FALSE]
  /\ checked = [p \in Prompts |-> 0]
  /\ displayed = {}
  /\ lastEvent = NoEvent
  \* the dashboard before window.storageAPI settles, nothing loaded
  /\ storageAPI = "pending"
  /\ api = "undefined"
  /\ nInScope = "unread"
  /\ req = [r \in ReqIds |-> NoRequest]
  /\ getFileCall = [ret |-> "none", ready |-> FALSE, threw |-> FALSE]
  /\ remoteStudents = {}
  /\ remoteDirs = [s \in Students |-> <<>>]
  /\ gather = "idle"
  /\ gatherDeferred = "none"
  /\ submissions = [s \in Students |-> Absent]
  /\ student = [s \in Students |-> NoStudent]
  /\ firstStored = 0
  /\ newPrompt = NoCall
  /\ TableIdle

\* Prompt.prototype.show, the instance free: a new deferred, and the display
\* callback handed to promptQueue.then.
Show(p) ==
  /\ ~AlreadyShowing(p)
  /\ Len(futures) < MaxShows
  /\ futures' = Append(futures, [owner |-> p, state |-> "pending", value |-> Undefined])
  /\ deferred' = [deferred EXCEPT ![p] = Len(futures) + 1]
  /\ promptQueue' = Append(promptQueue, Len(futures) + 1)
  /\ lastEvent' = [NoEvent EXCEPT !.kind = "show", !.prompt = p,
                                  !.target = Len(futures) + 1]
  /\ UNCHANGED <<gradeVars, ctorVars, tableVars>>
  /\ UNCHANGED <<options, closeHandlers, submitHandlers, clickHandlers,
                 keydownHandlers, display, submitShown, title, modalBody,
                 elts, isCompiled, checked, displayed>>

\* Prompt.prototype.show on an instance that has a deferred: throws.
ShowThrows(p) ==
  /\ AlreadyShowing(p)
  /\ lastEvent' = [NoEvent EXCEPT !.kind = "Already showing prompt",
                                  !.prompt = p, !.target = deferred[p],
                                  !.raised = TRUE]
  /\ UNCHANGED <<gradeVars, ctorVars, tableVars>>
  /\ UNCHANGED <<options, deferred, futures, promptQueue, closeHandlers,
                 submitHandlers, clickHandlers, keydownHandlers, display,
                 submitShown, title, modalBody, elts, isCompiled, checked,
                 displayed>>

\* populateModal's effect on the checked radio of instance p. The first
\* rendering creates the inputs and checks the first one. A later rendering
\* sets the checked attribute of the first cached input again: whether that
\* moves the selection away from a radio the user picked depends on the
\* jQuery build (attr sets the property in some, the attribute only in
\* others), so both outcomes are possible.
PopulateChecked(p) ==
  IF options[p].style # "radio" THEN {0}
  ELSE IF ~isCompiled[p] THEN {1}
  ELSE {1, checked[p]}

\* The callback show() gave to promptQueue.then, run on a later tick.
\* promptQueue is the promise Q() and is never reassigned, so the callbacks
\* run in the order of the show() calls, none waiting for an earlier prompt.
DisplayPrompt ==
  /\ promptQueue # <<>>
  /\ LET f == Head(promptQueue)
         p == Owner(f)
     IN /\ promptQueue' = Tail(promptQueue)
        /\ submitShown' = ~options[p].hideSubmit
        /\ closeHandlers' = Append(closeHandlers, f)
        /\ submitHandlers' = Append(submitHandlers, f)
        /\ clickHandlers' = Append(clickHandlers, f)
        /\ keydownHandlers' = Append(keydownHandlers, f)
        /\ title' = p
        /\ \E c \in PopulateChecked(p) : checked' = [checked EXCEPT ![p] = c]
        /\ isCompiled' = [isCompiled EXCEPT ![p] = TRUE]
        /\ elts' = [elts EXCEPT ![p] = TRUE]
        /\ modalBody' = p
        /\ display' = "block"
        /\ displayed' = displayed \cup {f}
        /\ lastEvent' = [NoEvent EXCEPT !.kind = "display", !.prompt = p,
                                        !.target = f]
  /\ UNCHANGED <<gradeVars, ctorVars, tableVars>>
  /\ UNCHANGED <<options, deferred, futures>>

\* The user picks another radio of the prompt on display.
SelectRadio ==
  /\ display = "block"
  /\ modalBody # 0
  /\ elts[modalBody]
  /\ options[modalBody].style = "radio"
  /\ \E i \in 1..options[modalBody].length :
        /\ i # checked[modalBody]
        /\ checked' = [checked EXCEPT ![modalBody] = i]
  /\ lastEvent' = [NoEvent EXCEPT !.kind = "select", !.prompt = modalBody]
  /\ UNCHANGED <<gradeVars, ctorVars, tableVars>>
  /\ UNCHANGED <<options, deferred, futures, promptQueue, closeHandlers,
                 submitHandlers, clickHandlers, keydownHandlers, display,
                 submitShown, title, modalBody, elts, isCompiled, displayed>>

\* One user event: the handlers bound for it run, and the world they leave
\* becomes the state.
UserEvent(kind, hs, expect) ==
  LET w == Dispatch(kind, World, hs)
  IN /\ deferred' = w.deferred
     /\ futures' = w.futures
     /\ display' = w.display
     /\ elts' = w.elts
     /\ clickHandlers' = w.clickHandlers
     /\ keydownHandlers' = w.keydownHandlers
     /\ lastEvent' = [kind |-> kind,
                      prompt |-> IF SoleDisplayedFuture = 0 THEN 0 ELSE modalBody,
                      target |-> SoleDisplayedFuture,
                      expect |-> expect,
                      raised |-> w.raised,
                      resolved |-> w.resolved]
     /\ UNCHANGED <<gradeVars, ctorVars, tableVars>>
     /\ UNCHANGED <<options, promptQueue, closeHandlers, submitHandlers,
                    submitShown, title, modalBody, isCompiled, checked,
                    displayed>>

\* A click on the modal's close button (in the modal, so the modal shows).
ClickClose ==
  /\ display = "block"
  /\ UserEvent("close", closeHandlers, Null)

\* A click on the modal's submit button.
ClickSubmit ==
  /\ display = "block"
  /\ submitShown
  /\ UserEvent("submit", submitHandlers, CheckedRadioVal)

\* A click whose target is the modal itself: its background.
ClickBackground ==
  /\ display = "block"
  /\ UserEvent("background", clickHandlers, Null)

\* An Escape keydown on the document, whatever the page shows.
PressEscape ==
  /\ keydownHandlers # <<>>
  /\ UserEvent("escape", keydownHandlers, Null)

NextPrompt ==
  \/ \E p \in Prompts : Show(p)
  \/ \E p \in Prompts : ShowThrows(p)
  \/ DisplayPrompt
  \/ SelectRadio
  \/ ClickClose
  \/ ClickSubmit
  \/ ClickBackground
  \/ PressEscape

----------------------------------------------------------------------------
(***************************************************************************)
(* ModalPrompt: construction                                               *)
(***************************************************************************)
\* The page with no prompt shown.
PromptsIdle ==
  /\ options = [p \in Prompts |-> [style |-> "radio", hideSubmit |-> FALSE,
                                    length |-> 2]]
  /\ deferred = [p \in Prompts |-> 0]
  /\ futures = <<>>
  /\ promptQueue = <<>>
  /\ closeHandlers = <<>>
  /\ submitHandlers = <<>>
  /\ clickHandlers = <<>>
  /\ keydownHandlers = <<>>
  /\ display = "none"
  /\ submitShown = TRUE
  /\ title = 0
  /\ modalBody = 0
  /\ elts = [p \in Prompts |-> FALSE]
  /\ isCompiled = [p \in Prompts |-> FALSE]
  /\ checked = [p \in Prompts |-> 0]
  /\ displayed = {}
  /\ lastEvent = NoEvent

\* The request layer at rest: window.storageAPI not settled, nothing loaded.
GradeIdle ==
  /\ storageAPI = "pending"
  /\ api = "undefined"
  /\ nInScope = "unread"
  /\ req = [r \in ReqIds |-> NoRequest]
  /\ getFileCall = [ret |-> "none", ready |-> FALSE, threw |-> FALSE]
  /\ remoteStudents = {}
  /\ remoteDirs = [s \in Students |-> <<>>]
  /\ gather = "idle"
  /\ gatherDeferred = "none"
  /\ submissions = [s \in Students |-> Absent]
  /\ student = [s \in Students |-> NoStudent]
  /\ firstStored = 0

InitConstruct ==
  /\ newPrompt = NoCall
  /\ PromptsIdle
  /\ GradeIdle
  /\ TableIdle

\* new Prompt(o), for any argument.
Construct(o) ==
  /\ newPrompt' = Prompt(o)
  /\ UNCHANGED <<promptVars, gradeVars, tableVars>>

NextConstruct == \E o \in PromptArgs : Construct(o)

----------------------------------------------------------------------------
(***************************************************************************)
(* The grading dashboard: storage API, promiseRetry, gatherSubmissions     *)
(***************************************************************************)

LastCall(r) == req[r].calls[Len(req[r].calls)]

\* The deferred of the first promiseRetry call: the promise getFile and
\* getFilesInFolder return.
Outer(r) == IF req[r].calls = <<>> THEN "none" ELSE req[r].calls[1].deferred

\* The timers of request r that have fired: its retries.
Retries(r) == IF req[r].calls = <<>> THEN 0 ELSE Len(req[r].calls) - 1

\* promiseRetry(promise, iteration, max): a deferred of its own, and a
\* then/fail pair subscribed to the promise it was given.
promiseRetry(iteration) ==
  [iteration |-> iteration, deferred |-> "pending", value |-> NoAnswer,
   cb |-> "waiting"]

\* A then-callback that treats the answer as one more attempt to wait out.
Fulfilled_Retry(call, resolvedObject) == [call EXCEPT !.cb = "timer"]

\* promiseRetry's then-callback: deferred.resolve(resolvedObject).
Fulfilled(call, resolvedObject) ==
  [call EXCEPT !.deferred = "resolved", !.value = resolvedObject,
               !.cb = "settled"]

\* api.getFileById(id) or api.getFilesInFolder(id), called once, and its
\* promise passed to promiseRetry(promise, 0, 5).
Request(k) ==
  [promise |-> "pending", k |-> k, attempts |-> 1, calls |-> <<promiseRetry(0)>>]

\* The requests the remote has failed.
Failing == {r \in ReqIds : req[r].k >= 1}

\* The remote may fail a further request.
MayFail(k) == k >= 1 => Cardinality(Failing) < MaxFailing

\* What getFile and getFilesInFolder return: promiseRetry's promise with the
\* api set, nothing (after console.error) without it.
GetFileReturns == IF api = "set" THEN "promise" ELSE "undefined"

\* dirs.find(dir => dir.getName() == "final-submission"): the first such
\* child, 0 for undefined.
FindFinal(dirs) ==
  IF \E i \in 1..Len(dirs) : dirs[i] = "final-submission"
  THEN CHOOSE i \in 1..Len(dirs) :
         /\ dirs[i] = "final-submission"
         /\ \A j \in 1..(i - 1) : dirs[j] # "final-submission"
  ELSE 0

\* A store that keeps whatever the chain produced, null included.
Truthy_Always(files) == TRUE

\* if (files): a file list is truthy, null is not.
Truthy(files) == files.tag = "files"

\* A fan-in that fires on the first student chain to end.
AllFulfilled_Any == \E s \in remoteStudents : student[s].pc = "done"

\* Q.all over the students' chains: every one of them fulfilled.
AllFulfilled == \A s \in remoteStudents : student[s].pc = "done"

InitGrade ==
  /\ storageAPI = "pending"
  /\ api = "undefined"
  /\ nInScope = "unread"
  /\ req = [r \in ReqIds |-> NoRequest]
  /\ getFileCall = [ret |-> "none", ready |-> FALSE, threw |-> FALSE]
  /\ remoteStudents \in {1..n : n \in 0..NumStudents}
  /\ remoteDirs \in [Students -> DirLists]
  /\ \A s \in Students \ remoteStudents : remoteDirs[s] = <<>>
  /\ gather = "idle"
  /\ gatherDeferred = "none"
  /\ submissions = [s \in Students |-> Absent]
  /\ student = [s \in Students |-> NoStudent]
  /\ firstStored = 0
  \* the page's prompts constructed, none shown
  /\ options = [p \in Prompts |-> [style |-> "radio", hideSubmit |-> FALSE,
                                    length |-> 2]]
  /\ deferred = [p \in Prompts |-> 0]
  /\ futures = <<>>
  /\ promptQueue = <<>>
  /\ closeHandlers = <<>>
  /\ submitHandlers = <<>>
  /\ clickHandlers = <<>>
  /\ keydownHandlers = <<>>
  /\ display = "none"
  /\ submitShown = TRUE
  /\ title = 0
  /\ modalBody = 0
  /\ elts = [p \in Prompts |-> FALSE]
  /\ isCompiled = [p \in Prompts |-> FALSE]
  /\ checked = [p \in Prompts |-> 0]
  /\ displayed = {}
  /\ lastEvent = NoEvent
  /\ newPrompt = NoCall
  /\ TableIdle

\* window.storageAPI.then's first callback.
StorageApiThen ==
  /\ storageAPI = "pending"
  /\ storageAPI' = "resolved"
  /\ api' = "set"
  /\ UNCHANGED <<promptVars, ctorVars, tableVars>>
  /\ UNCHANGED <<nInScope, req, getFileCall, remoteStudents, remoteDirs,
                 gather, gatherDeferred, submissions, student, firstStored>>

\* window.storageAPI.then's second callback: the error is logged.
StorageApiFail ==
  /\ storageAPI = "pending"
  /\ storageAPI' = "rejected"
  /\ UNCHANGED <<promptVars, ctorVars, tableVars>>
  /\ UNCHANGED <<api, nInScope, req, getFileCall, remoteStudents, remoteDirs,
                 gather, gatherDeferred, submissions, student, firstStored>>

\* loadAndRenderSubmissions: getFile(suiteID), and .then on what it returns,
\* a TypeError when that is undefined. One load that reaches the remote is
\* modelled.
LoadAndRenderSubmissions(k) ==
  /\ getFileCall.ret # "promise"
  /\ MayFail(k)
  /\ getFileCall' = [ret |-> GetFileReturns, ready |-> api = "set",
                     threw |-> GetFileReturns = "undefined"]
  /\ req' = IF GetFileReturns = "promise"
            THEN [req EXCEPT ![File] = Request(k)]
            ELSE req
  /\ UNCHANGED <<promptVars, ctorVars, tableVars>>
  /\ UNCHANGED <<storageAPI, api, nInScope, remoteStudents, remoteDirs,
                 gather, gatherDeferred, submissions, student, firstStored>>

\* The remote answers the one attempt made of request r: it fails the first
\* k attempts.
Settle(r) ==
  /\ req[r].promise = "pending"
  /\ req' = [req EXCEPT ![r].promise =
                 IF req[r].attempts > req[r].k THEN "fulfilled" ELSE "rejected"]
  /\ UNCHANGED <<promptVars, ctorVars, tableVars>>
  /\ UNCHANGED <<storageAPI, api, nInScope, getFileCall, remoteStudents,
                 remoteDirs, gather, gatherDeferred, submissions, student,
                 firstStored>>

\* promiseRetry's then-callback: deferred.resolve(resolvedObject).
RetryThen(r) ==
  /\ req[r].promise = "fulfilled"
  /\ LastCall(r).cb = "waiting"
  /\ req' = [req EXCEPT ![r].calls[Len(req[r].calls)] = Fulfilled(@, Answer(r))]
  /\ UNCHANGED <<promptVars, ctorVars, tableVars>>
  /\ UNCHANGED <<storageAPI, api, nInScope, getFileCall, remoteStudents,
                 remoteDirs, gather, gatherDeferred, submissions, student,
                 firstStored>>

\* promiseRetry's fail-callback. Out of retries, it rejects the deferred of
\* this call. Otherwise it evaluates Math.pow(2,n), n declared nowhere in the
\* module: a ReferenceError that ends the callback unless the page defines
\* a global n, and with one a timer is set. Which of the two the page does
\* is settled the first time the line runs.
RetryFail(r) ==
  /\ req[r].promise = "rejected"
  /\ LastCall(r).cb = "waiting"
  /\ IF LastCall(r).iteration >= RetryMax
     THEN /\ req' = [req EXCEPT ![r].calls[Len(req[r].calls)] =
                        [@ EXCEPT !.deferred = "rejected", !.cb = "settled"]]
          /\ nInScope' = nInScope
     ELSE /\ nInScope' \in (IF nInScope = "unread" THEN {"bound", "unbound"}
                                                   ELSE {nInScope})
          /\ req' = [req EXCEPT ![r].calls[Len(req[r].calls)] =
                        IF nInScope' = "unbound"
                        THEN [@ EXCEPT !.cb = "threw"]
                        ELSE [@ EXCEPT !.cb = "timer"]]
  /\ UNCHANGED <<promptVars, ctorVars, tableVars>>
  /\ UNCHANGED <<storageAPI, api, getFileCall, remoteStudents,
                 remoteDirs, gather, gatherDeferred, submissions, student,
                 firstStored>>

\* The setTimeout callback: promiseRetry(promise, iteration + 1, max) on the
\* same promise, its return value dropped.
RetryTimer(r) ==
  /\ req[r].calls # <<>>
  /\ LastCall(r).cb = "timer"
  /\ req' = [req EXCEPT ![r].calls =
                 Append([@ EXCEPT ![Len(@)].cb = "retried"],
                        promiseRetry(LastCall(r).iteration + 1))]
  /\ UNCHANGED <<promptVars, ctorVars, tableVars>>
  /\ UNCHANGED <<storageAPI, api, nInScope, getFileCall, remoteStudents,
                 remoteDirs, gather, gatherDeferred, submissions, student,
                 firstStored>>

\* suiteSubmissionPromise.then: processSubmission(testSuite), which calls
\* gatherSubmissions(assignmentID): a deferred, an empty submissions object,
\* and the listing of the assignment folder.
ProcessSubmission(k) ==
  /\ Outer(File) = "resolved"
  /\ gather = "idle"
  /\ MayFail(k)
  /\ gather' = "listing"
  /\ gatherDeferred' = "pending"
  /\ submissions' = [s \in Students |-> Absent]
  /\ req' = [req EXCEPT ![Top] = Request(k)]
  /\ UNCHANGED <<promptVars, ctorVars, tableVars>>
  /\ UNCHANGED <<storageAPI, api, nInScope, getFileCall, remoteStudents,
                 remoteDirs, student, firstStored>>

\* gatherSubmissions' first then-callback: students.map issues the listing
\* of every student folder, and Q.all waits for the chains.
ListStudents(ks) ==
  /\ gather = "listing"
  /\ Outer(Top) = "resolved"
  /\ \A s \in Students \ remoteStudents : ks[s] = 0
  /\ Cardinality(Failing) + Cardinality({s \in Students : ks[s] >= 1})
        <= MaxFailing
  /\ gather' = "fanout"
  /\ req' = [r \in ReqIds |->
               IF \E s \in remoteStudents : r = StudentDir(s)
               THEN Request(ks[r[2]])
               ELSE req[r]]
  /\ student' = [s \in Students |->
                   IF s \in remoteStudents
                   THEN [student[s] EXCEPT !.pc = "listing"]
                   ELSE student[s]]
  /\ UNCHANGED <<promptVars, ctorVars, tableVars>>
  /\ UNCHANGED <<storageAPI, api, nInScope, getFileCall, remoteStudents,
                 remoteDirs, gatherDeferred, submissions, firstStored>>

\* A student's first then-callback: dirs.find.
FindDir(s) ==
  /\ student[s].pc = "listing"
  /\ Outer(StudentDir(s)) = "resolved"
  /\ student' = [student EXCEPT ![s].pc = "found",
                                ![s].dir = FindFinal(remoteDirs[s])]
  /\ UNCHANGED <<promptVars, ctorVars, tableVars>>
  /\ UNCHANGED <<storageAPI, api, nInScope, req, getFileCall, remoteStudents,
                 remoteDirs, gather, gatherDeferred, submissions, firstStored>>

\* A student's second then-callback: the listing of the folder found, or
\* null.
ListFinal(s, k) ==
  /\ student[s].pc = "found"
  /\ IF student[s].dir # 0
     THEN /\ MayFail(k)
          /\ req' = [req EXCEPT ![FinalDir(s)] = Request(k)]
          /\ student' = [student EXCEPT ![s].pc = "fetching"]
     ELSE /\ k = 0
          /\ req' = req
          /\ student' = [student EXCEPT ![s].pc = "files",
                                        ![s].files = FilesNull]
  /\ UNCHANGED <<promptVars, ctorVars, tableVars>>
  /\ UNCHANGED <<storageAPI, api, nInScope, getFileCall, remoteStudents,
                 remoteDirs, gather, gatherDeferred, submissions, firstStored>>

\* A student's third then-callback: if (files) submissions[name] = files.
StoreFiles(s) ==
  /\ \/ student[s].pc = "files"
     \/ student[s].pc = "fetching" /\ Outer(FinalDir(s)) = "resolved"
  /\ LET files == IF student[s].pc = "files" THEN student[s].files
                  ELSE FilesOf(s, student[s].dir)
     IN /\ submissions' = IF Truthy(files)
                          THEN [submissions EXCEPT ![s] = files]
                          ELSE submissions
        /\ student' = [student EXCEPT ![s].pc = "done", ![s].files = files]
  /\ firstStored' = IF firstStored = 0 THEN s ELSE firstStored
  /\ UNCHANGED <<promptVars, ctorVars, tableVars>>
  /\ UNCHANGED <<storageAPI, api, nInScope, req, getFileCall, remoteStudents,
                 remoteDirs, gather, gatherDeferred>>

\* gatherSubmissions' second then-callback, run once Q.all's promise is
\* fulfilled: deferred.resolve(submissions).
ResolveGather ==
  /\ gather = "fanout"
  /\ gatherDeferred = "pending"
  /\ AllFulfilled
  /\ gatherDeferred' = "resolved"
  /\ UNCHANGED <<promptVars, ctorVars, tableVars>>
  /\ UNCHANGED <<storageAPI, api, nInScope, req, getFileCall, remoteStudents,
                 remoteDirs, gather, submissions, student, firstStored>>

NextGrade ==
  \/ StorageApiThen
  \/ StorageApiFail
  \/ \E k \in FileFailCounts : LoadAndRenderSubmissions(k)
  \/ \E r \in ReqIds : Settle(r)
  \/ \E r \in ReqIds : RetryThen(r)
  \/ \E r \in ReqIds : RetryFail(r)
  \/ \E r \in ReqIds : RetryTimer(r)
  \/ \E k \in ListingFailCounts : ProcessSubmission(k)
  \/ \E ks \in [Students -> ListingFailCounts] : ListStudents(ks)
  \/ \E s \in Students : FindDir(s)
  \/ \E s \in Students, k \in ListingFailCounts : ListFinal(s, k)
  \/ \E s \in Students : StoreFiles(s)
  \/ ResolveGather

----------------------------------------------------------------------------
(***************************************************************************)
(* The dashboard's table: rendering, cell runs, run-all loops, export      *)
(***************************************************************************)
\* The variables of the prompt, the request layer and the constructor: the
\* table's specifications start after the submissions were gathered, take
\* the gathered object as listing, and leave these at rest.
pageVars == <<promptVars, gradeVars, ctorVars>>

\* The target behind cell c, and its runner.
TargetOf(c) == targets[c[1]].list[c[2]]

Eval(c) == TargetOf(c).eval

\* The place of an element in the document.
Rank(c) == c[1] * (3 + MaxCoals) + c[2]

RECURSIVE InOrder(_)
InOrder(S) ==
  IF S = {} THEN <<>>
  ELSE LET first == CHOOSE x \in S : \A y \in S : Rank(x) <= Rank(y)
       IN <<first>> \o InOrder(S \ {first})

\* The td elements of the table.
TDs == {c \in DOMAIN tbl : c[1] >= 1}

\* The cells a header's click handler passes to runTDs:
\*   the "student" th:  find("td:not(.nohov):not(:first-child)")
\*   the th of index j:  find("td:not(.nohov):nth-child(" + (j + 1) + ")")
\*   a row's first td:   $(this).parent().find("td:not(:first-child)")
Find(h) ==
  IF h[1] = 0
  THEN IF h[2] = 0
       THEN InOrder({c \in TDs : "nohov" \notin tbl[c].cls /\ c[2] # 0})
       ELSE InOrder({c \in TDs : "nohov" \notin tbl[c].cls /\ c[2] = h[2]})
  ELSE InOrder({c \in TDs : c[1] = h[1] /\ c[2] # 0})

\* targetTD.removeClass("def").css("background-color", "#f7cb2a");
\* $("#tbl td.def, #tbl th.def").addClass("dis").removeClass("def")
Clicked(t, c) ==
  LET t1 == [t EXCEPT ![c].cls = @ \ {"def"}, ![c].colour = "yellow"]
  IN [d \in DOMAIN t |->
        IF "def" \in t1[d].cls
        THEN [t1[d] EXCEPT !.cls = (@ \cup {"dis"}) \ {"def"}]
        ELSE t1[d]]

\* A completion that leaves the disabled elements as they are.
Enabled_None(t) == t

\* $("#tbl td.dis, #tbl th.dis").addClass("def").removeClass("dis")
Enabled(t) ==
  [d \in DOMAIN t |->
     IF "dis" \in t[d].cls
     THEN [t[d] EXCEPT !.cls = (@ \cup {"def"}) \ {"dis"}]
     ELSE t[d]]

\* A completion handler that colours every finished cell green.
Finish_Green(t, c, result) ==
  [t EXCEPT ![c].colour = "green", ![c].cls = @ \cup {"fin"}]

\* The completion handler's marks on its cell: green for a success result,
\* red otherwise, and the class fin.
Finish(t, c, result) ==
  [t EXCEPT ![c].colour = IF result = "success" THEN "green" ELSE "red",
            ![c].cls = @ \cup {"fin"}]

\* A loop that clicks its cell whatever its marks.
Clickable_Always(cls) == TRUE

\* tds.eq(i).hasClass("def")
Clickable(cls) == "def" \in cls

\* A loop that moves on from its cell whatever its marks.
Finished_Always(cls) == TRUE

\* tds.eq(i).hasClass("fin")
Finished(cls) == "fin" \in cls

\* runTDs(tds): var i = 0, and the interval set. started counts the clicks
\* of this invocation on tds.eq(i) since i last changed.
runTDs(tds) == [tds |-> tds, i |-> 0, started |-> 0, cleared |-> FALSE]

\* The results a run may hand to its completion handler.
RunResults == {"success", "failure"}

\* submissionsPromise.then's callback: toTargets on every key of submissions,
\* then renderSubmissions.
SubmissionsThen ==
  /\ <<0, 0>> \notin DOMAIN tbl
  /\ targets' = [s \in Students |->
                   IF listing[s].key
                   THEN toTargets(listing[s].files, testSuite, coals)
                   ELSE NoTargets]
  /\ tbl' = renderSubmissions(targets')
  /\ pending' = NoRuns(tbl')
  /\ UNCHANGED pageVars
  /\ UNCHANGED <<testSuite, coals, listing, stuck, loops, manual, out>>

\* The dashboard when gatherSubmissions' promise has resolved: any files for
\* any student, any number of coal lines.
InitRender ==
  /\ testSuite \in {"file", "null"}
  /\ coals \in 0..MaxCoals
  /\ listing \in [Students -> {NoKey} \cup {Files(f) : f \in FileLists}]
  /\ targets = [s \in Students |->
                  IF listing[s].key THEN Unconverted ELSE NoTargets]
  /\ tbl = NoTable
  /\ pending = NoRuns(NoTable)
  /\ stuck = FALSE
  /\ loops = <<>>
  /\ manual = 0
  /\ out = NoOut
  /\ PromptsIdle
  /\ GradeIdle
  /\ newPrompt = NoCall

NextRender == SubmissionsThen

\* The students of the tables whose cells are run: two of them.
Graded == Students \cap {1, 2}

\* The table as rendered for two students who each submitted the
\* implementation, with or without the tests, the coals field left empty:
\* two target columns, and a row of cells for a student with both files.
InitTable ==
  /\ testSuite \in {"file", "null"}
  /\ coals = 0
  /\ listing \in [Students -> {NoKey, Files(<<ImplName, TestName>>),
                               Files(<<ImplName>>)}]
  /\ \A s \in Students : listing[s].key <=> s \in Graded
  /\ targets = [s \in Students |->
                  IF listing[s].key
                  THEN toTargets(listing[s].files, testSuite, coals)
                  ELSE NoTargets]
  /\ tbl = renderSubmissions(targets)
  /\ pending = NoRuns(tbl)
  /\ stuck = FALSE
  /\ loops = <<>>
  /\ manual = 0
  /\ out = NoOut
  /\ PromptsIdle
  /\ GradeIdle
  /\ newPrompt = NoCall

\* makeTarget's click handler on cell c: the marks, then target.eval(...),
\* a TypeError when eval is null.
makeTarget(c) ==
  /\ tbl' = Clicked(tbl, c)
  /\ IF Eval(c) = "null"
     THEN /\ stuck' = TRUE
          /\ pending' = pending
     ELSE /\ pending' = [pending EXCEPT ![c] = @ + 1]
          /\ stuck' = stuck

\* The user clicks a cell, whatever its marks: the handler is bound to the td.
ClickCell(c) ==
  /\ c \in RunCells(tbl)
  /\ manual < MaxManual
  /\ manual' = manual + 1
  /\ makeTarget(c)
  /\ UNCHANGED pageVars
  /\ UNCHANGED <<testSuite, coals, listing, targets, loops, out>>

\* The user clicks a header: the th of the table or of a column, or the first
\* td of a row.
ClickHeader(h) ==
  /\ h \in DOMAIN tbl
  /\ tbl[h].onclick = "runTDs"
  /\ Len(loops) < MaxLoops
  /\ loops' = Append(loops, runTDs(Find(h)))
  /\ UNCHANGED pageVars
  /\ UNCHANGED <<testSuite, coals, listing, targets, tbl, pending, stuck,
                 manual, out>>

\* One firing of the interval of loop l.
Tick(l) ==
  /\ l <= Len(loops)
  /\ ~loops[l].cleared
  /\ IF loops[l].i < Len(loops[l].tds)
     THEN LET c == loops[l].tds[loops[l].i + 1]
          IN IF Clickable(tbl[c].cls)
             THEN /\ makeTarget(c)
                  /\ loops' = IF Eval(c) # "null" /\ Finished(tbl'[c].cls)
                              THEN [loops EXCEPT ![l].i = @ + 1,
                                                 ![l].started = 0]
                              ELSE [loops EXCEPT ![l].started = @ + 1]
             ELSE /\ loops' = IF Finished(tbl[c].cls)
                              THEN [loops EXCEPT ![l].i = @ + 1,
                                                 ![l].started = 0]
                              ELSE loops
                  /\ UNCHANGED <<tbl, pending, stuck>>
     ELSE /\ loops' = [loops EXCEPT ![l].cleared = TRUE]
          /\ UNCHANGED <<tbl, pending, stuck>>
  /\ UNCHANGED pageVars
  /\ UNCHANGED <<testSuite, coals, listing, targets, manual, out>>

\* The completion handler of a run of cell c, called with the run's result.
Complete(c, result) ==
  /\ c \in DOMAIN pending
  /\ pending[c] > 0
  /\ pending' = [pending EXCEPT ![c] = @ - 1]
  /\ targets' = [targets EXCEPT ![c[1]].list[c[2]].result = result]
  /\ tbl' = Enabled(Finish(tbl, c, result))
  /\ UNCHANGED pageVars
  /\ UNCHANGED <<testSuite, coals, listing, stuck, loops, manual, out>>

\* fileObj.getContents() or runner.runString rejects: the chain ends without
\* calling the completion handler.
FetchFails(c) ==
  /\ c \in DOMAIN pending
  /\ pending[c] > 0
  /\ pending' = [pending EXCEPT ![c] = @ - 1]
  /\ stuck' = TRUE
  /\ UNCHANGED pageVars
  /\ UNCHANGED <<testSuite, coals, listing, targets, tbl, loops, manual, out>>

\* The submit handler of #frm: generateJSON(submissions).
SubmitForm ==
  /\ out' = [written |-> TRUE, blob |-> generateJSON(targets)]
  /\ UNCHANGED pageVars
  /\ UNCHANGED <<testSuite, coals, listing, targets, tbl, pending, stuck,
                 loops, manual>>

\* The first run-all of the page.
ClickHeaderOnce(h) ==
  /\ loops = <<>>
  /\ ClickHeader(h)

\* One run-all invocation among the clicks of the user.
NextTable ==
  \/ \E c \in TargetCells : ClickCell(c)
  \/ \E h \in Cells : ClickHeaderOnce(h)
  \/ \E l \in 1..MaxLoops : Tick(l)
  \/ \E c \in TargetCells, result \in RunResults : Complete(c, result)
  \/ \E c \in TargetCells : FetchFails(c)

\* Cells run by the user, and the form submitted at any time.
NextExport ==
  \/ \E c \in TargetCells : ClickCell(c)
  \/ \E c \in TargetCells, result \in RunResults : Complete(c, result)
  \/ SubmitForm

\* The table with cells started by run-all loops only.
NextRunAll ==
  \/ \E h \in Cells : ClickHeader(h)
  \/ \E l \in 1..MaxLoops : Tick(l)
  \/ \E c \in TargetCells, result \in RunResults : Complete(c, result)
  \/ \E c \in TargetCells : FetchFails(c)

\* The run-all loops with every result a success: what depends on the result,
\* the colour, the title and the stored result (the branches of makeTarget's
\* callback), is read by no loop.
NextTerminate ==
  \/ \E h \in Cells : ClickHeader(h)
  \/ \E l \in 1..MaxLoops : Tick(l)
  \/ \E c \in TargetCells : Complete(c, "success")
  \/ \E c \in TargetCells : FetchFails(c)

\* The intervals keep firing: a firing that would change the state is not
\* put off for ever. A run in flight settles: its chain of promises calls
\* the completion handler or ends on a rejection.
RunAllFairness ==
  /\ WF_vars(\E l \in 1..MaxLoops : Tick(l))
  /\ WF_vars(\E c \in TargetCells :
               Complete(c, "success") \/ FetchFails(c))

----------------------------------------------------------------------------
(***************************************************************************)
(* The specifications                                                      *)
(***************************************************************************)
SpecPrompt == InitPrompt /\ [][NextPrompt]_vars

SpecGrade == InitGrade /\ [][NextGrade]_vars

SpecConstruct == InitConstruct /\ [][NextConstruct]_vars

SpecRender == InitRender /\ [][NextRender]_vars

SpecTable == InitTable /\ [][NextTable]_vars

SpecExport == InitTable /\ [][NextExport]_vars

SpecRunAll == InitTable /\ [][NextRunAll]_vars

SpecTerminate == InitTable /\ [][NextTerminate]_vars /\ RunAllFairness

----------------------------------------------------------------------------
(***************************************************************************)
(* ModalPrompt: properties                                                 *)
(***************************************************************************)
UserKinds == {"close", "submit", "background", "escape"}

\* C1: prompts become visible in the order of their show() calls, a later
\* prompt is not populated or displayed before every earlier one has
\* resolved, and at most one displayed prompt is unresolved at any time.
C1_FifoOneVisible ==
  /\ \A f, g \in 1..Len(futures) :
        (f < g /\ g \in displayed) => (f \in displayed /\ ~Pending(f))
  /\ Cardinality({f \in displayed : Pending(f)}) <= 1

\* C2: a submit click, close click, background click or Escape on the prompt
\* on display (every earlier prompt resolved) resolves its future within that
\* event: to the checked radio's value on submit, to null on a dismissal.
C2_ActionResolves ==
  (lastEvent.kind \in UserKinds /\ lastEvent.target # 0) =>
    /\ futures[lastEvent.target].state = "resolved"
    /\ futures[lastEvent.target].value = lastEvent.expect

\* C3: show() on an instance whose previous show() is unresolved throws
\* 'Already showing prompt' and leaves the outstanding deferred in place; an
\* instance never has more than one outstanding show() request.
C3_AtMostOneOutstanding ==
  /\ \A p \in Prompts :
        /\ Cardinality(Outstanding(p)) <= 1
        /\ deferred[p] # 0 => Outstanding(p) = {deferred[p]}
  /\ lastEvent.kind = "Already showing prompt" =>
        /\ lastEvent.target # 0
        /\ deferred[lastEvent.prompt] = lastEvent.target
        /\ Pending(lastEvent.target)

\* C3's case: a second show() on a busy instance has just thrown, the
\* first request still the instance's one outstanding request.
C3_Witness ==
  /\ lastEvent.kind = "Already showing prompt"
  /\ Outstanding(lastEvent.prompt) = {lastEvent.target}
  /\ lastEvent.target \in displayed

\* C4: once resolved, an instance holds no pending request; every future is
\* resolved by one action only, and no handler invocation, later or
\* duplicated, raises an error or resolves a second future.
C4_OneShotNoError ==
  /\ \A f \in 1..Len(futures) : ~Pending(f) => deferred[Owner(f)] # f
  /\ lastEvent.kind \in UserKinds =>
        /\ ~lastEvent.raised
        /\ Cardinality(lastEvent.resolved) <= 1

\* What C14 lists as invalid: options missing, a style that is neither
\* "radio" nor "tiles", options.options missing, without a numeric length,
\* or empty.
ListedInvalid(o) ==
  \/ o.kind \in {"undefined", "null"}
  \/ o.style \notin {"radio", "tiles"}
  \/ o.options.kind \in {"undefined", "null"}
  \/ o.options.lengthType # "number"
  \/ o.options.length = 0

----------------------------------------------------------------------------
(***************************************************************************)
(* The grading dashboard: properties                                       *)
(***************************************************************************)
Issued(r) == req[r].promise # "none"

\* Nothing more will run for request r: its promise has settled and its last
\* promiseRetry call has neither a callback nor a timer to come.
Quiescent(r) ==
  /\ req[r].promise \in {"fulfilled", "rejected"}
  /\ LastCall(r).cb \in {"settled", "threw"}

\* The last promiseRetry call of r ran out of retries and rejected.
BudgetExhausted(r) ==
  /\ Issued(r)
  /\ LastCall(r).iteration >= RetryMax
  /\ LastCall(r).deferred = "rejected"

Listings == ReqIds \ {File}

\* Some child of student s's folder is named exactly "final-submission".
HasFinal(s) ==
  \E i \in 1..Len(remoteDirs[s]) : remoteDirs[s][i] = "final-submission"

\* The first such child.
FirstFinal(s) ==
  CHOOSE i \in 1..Len(remoteDirs[s]) :
    /\ remoteDirs[s][i] = "final-submission"
    /\ \A j \in 1..Len(remoteDirs[s]) :
          remoteDirs[s][j] = "final-submission" => i <= j

\* C5: a request that fails its first k attempts, k < max, and then succeeds
\* ends with the returned promise resolved, after exactly k retries.
C5_RetryThenSucceed ==
  \A r \in ReqIds :
    (Issued(r) /\ req[r].k < RetryMax /\ Quiescent(r)) =>
      /\ Outer(r) = "resolved"
      /\ Retries(r) = req[r].k

\* C6: a request that fails on every attempt ends with the returned promise
\* rejected after max retries; no more than max retries are ever made.
C6_AlwaysFailRejects ==
  \A r \in ReqIds :
    /\ Retries(r) <= RetryMax
    /\ (Issued(r) /\ req[r].k > RetryMax /\ Quiescent(r)) =>
          /\ Outer(r) = "rejected"
          /\ Retries(r) = RetryMax

\* C7: once a folder listing has failed with its retry budget exhausted,
\* the promise gatherSubmissions returned is rejected.
C7_GatherRejects ==
  (\E r \in Listings : BudgetExhausted(r)) => gatherDeferred = "rejected"

\* C8 as stated: in the resolved mapping a student without a
\* "final-submission" child is mapped to null, and every student with one to
\* its file list.
C8_MissingFolderIsNull ==
  gatherDeferred = "resolved" =>
    \A s \in remoteStudents :
      IF HasFinal(s)
      THEN submissions[s] = FilesOf(s, FirstFinal(s))
      ELSE submissions[s] = FilesNull

\* C8 amended: in the resolved mapping a student without a
\* "final-submission" child has no key at all, and every student with one is
\* mapped to its file list.
C8_MissingFolderIsAbsent ==
  gatherDeferred = "resolved" =>
    \A s \in remoteStudents :
      IF HasFinal(s)
      THEN submissions[s] = FilesOf(s, FirstFinal(s))
      ELSE submissions[s] = Absent

\* C8's case: the mapping is resolved for an assignment where one student
\* lacks the folder and another has it.
C8_Witness ==
  /\ gatherDeferred = "resolved"
  /\ \E s, t \in remoteStudents :
        /\ ~HasFinal(s)
        /\ remoteDirs[s] # <<>>
        /\ student[s].files = FilesNull
        /\ HasFinal(t)
        /\ submissions[t].tag = "files"

\* C9: the promise of gatherSubmissions is resolved only when every
\* student's fetches have completed, whatever the order of the responses,
\* and the mapping then holds the files of every student with the folder.
C9_ResolvedAfterAll ==
  gatherDeferred = "resolved" =>
    \A s \in remoteStudents :
      /\ student[s].pc = "done"
      /\ Outer(StudentDir(s)) = "resolved"
      /\ Issued(FinalDir(s)) => Outer(FinalDir(s)) = "resolved"
      /\ HasFinal(s) =>
            /\ Outer(FinalDir(s)) = "resolved"
            /\ submissions[s] = FilesOf(s, FirstFinal(s))

\* C9's case: two students with the folder, the second student's files
\* arriving first, and the mapping resolved.
C9_Witness ==
  /\ gatherDeferred = "resolved"
  /\ firstStored # 0
  /\ HasFinal(firstStored)
  /\ \E s \in remoteStudents : s < firstStored /\ HasFinal(s)

\* C10: getFile called before window.storageAPI has resolved returns a
\* rejected promise, and the caller chaining on it sees a rejection.
C10_NotReadyIsRejected ==
  (getFileCall.ret # "none" /\ ~getFileCall.ready) =>
    /\ getFileCall.ret = "rejected"
    /\ ~getFileCall.threw

\* C15: a request that succeeds on its first attempt resolves the returned
\* promise with the answer, with no retry, no backoff timer and no further
\* invocation of the request.
C15_FirstAttemptSucceeds ==
  \A r \in ReqIds :
    (Issued(r) /\ req[r].k = 0) =>
      /\ req[r].attempts = 1
      /\ req[r].promise # "rejected"
      /\ Retries(r) = 0
      /\ LastCall(r).cb \in {"waiting", "settled"}
      /\ LastCall(r).cb = "settled" =>
            /\ Outer(r) = "resolved"
            /\ req[r].calls[1].value = Answer(r)

\* C15's case: a student listing answered on its first attempt, its promise
\* resolved with the answer.
C15_Witness ==
  \E s \in remoteStudents :
    /\ req[StudentDir(s)].k = 0
    /\ Quiescent(StudentDir(s))
    /\ Outer(StudentDir(s)) = "resolved"
    /\ req[StudentDir(s)].calls[1].value = Answer(StudentDir(s))

----------------------------------------------------------------------------
(***************************************************************************)
(* The dashboard's table: properties                                       *)
(***************************************************************************)
Rendered == <<0, 0>> \in DOMAIN tbl

\* Student s's submission holds a file of that name.
HasFile(s, name) ==
  \E i \in 1..Len(listing[s].files) : listing[s].files[i] = name

\* The names test, gold, coal-0 .. coal-(n-1), in that order.
TargetNames(n) ==
  [j \in 1..(2 + n) |-> IF j = 1 THEN TestTarget
                        ELSE IF j = 2 THEN GoldTarget
                        ELSE CoalTarget(j - 3)]

Columns == 0..(2 + MaxCoals)

\* C12: a submission without the implementation-named or the test-named file
\* yields null, and its row is rendered with no clickable cell; one with both
\* yields the targets test, gold, coal-0 .. coal-(n-1), in that order.
C12_TargetsOrNoCells ==
  Rendered =>
    \A s \in Students :
      listing[s].key =>
        IF HasFile(s, ImplName) /\ HasFile(s, TestName)
        THEN /\ targets[s].tag = "targets"
             /\ [j \in 1..Len(targets[s].list) |-> targets[s].list[j].name]
                  = TargetNames(coals)
        ELSE /\ targets[s] = NullTargets
             /\ <<s, 0>> \in DOMAIN tbl
             /\ \A j \in Columns :
                   <<s, j>> \in DOMAIN tbl =>
                     /\ tbl[<<s, j>>].onclick = "none"
                     /\ "def" \notin tbl[<<s, j>>].cls

\* C12's case: a table rendered for one student without the tests and one
\* with both files, with a coal.
C12_Witness ==
  /\ Rendered
  /\ coals >= 1
  /\ \E s, t \in Students :
        /\ listing[s].key /\ HasFile(s, ImplName) /\ ~HasFile(s, TestName)
        /\ <<s, 1>> \in DOMAIN tbl
        /\ Len(targets[t].list) = 2 + coals
        /\ <<t, 2 + coals>> \in RunCells(tbl)

\* Between its click and the next completion of one of its runs, a cell has
\* the colour the click gave it.
Running(c) == tbl[c].colour = "yellow"

\* C11: one run-all invocation starts the cells of its list in list order,
\* each at most once, and starts a cell only when every cell before it in
\* the list has reached finished: the cell it may click is the one at its
\* index, every cell before its index is finished, and it has clicked the
\* cell at its index once at most.
C11_InOrderOneAtATime ==
  \A l \in 1..Len(loops) :
    /\ loops[l].i <= Len(loops[l].tds)
    /\ loops[l].started <= 1
    /\ \A q \in 1..loops[l].i : "fin" \in tbl[loops[l].tds[q]].cls

\* C11's case: a run-all over a whole table has run its first three cells
\* and started the last, which is still running, the user having clicked a
\* cell as well.
C11_Witness ==
  /\ manual >= 1
  /\ \E l \in 1..Len(loops) :
        /\ Len(loops[l].tds) >= 4
        /\ loops[l].i = 3
        /\ loops[l].started = 1
        /\ pending[loops[l].tds[4]] >= 1

\* What C13 says of an export: a student's key appears exactly when one of
\* its targets has a stored result.
KeyIffSomeResult ==
  \A s \in Students :
    out'.blob[s].key <=>
      \E j \in 1..Len(targets[s].list) :
        targets[s].list[j].result # "undefined"

\* The entries of a student's object are those of its targets whose run has
\* completed and stored target.result, each holding that result.
EntryIffResult ==
  \A s \in Students :
    /\ \A j \in 1..Len(targets[s].list) :
          /\ (\E e \in out'.blob[s].entries : e.name = targets[s].list[j].name)
               <=> targets[s].list[j].result # "undefined"
          /\ targets[s].list[j].result # "undefined"
               <=> "fin" \in tbl[<<s, j>>].cls
    /\ \A e \in out'.blob[s].entries :
          \E j \in 1..Len(targets[s].list) :
            /\ e.name = targets[s].list[j].name
            /\ e.file = targets[s].list[j].result

\* C13 as stated: the exported object omits every student and every target
\* without a recorded result.
C13_OmitsStudentsWithoutResult ==
  [][SubmitForm => (KeyIffSomeResult /\ EntryIffResult)]_vars

\* C13 amended: the exported object has a key for every key of submissions,
\* holding an object that is empty when the student has no targets or none
\* of them has a result; it omits every target without a recorded result.
C13_KeyForEveryStudent ==
  [][SubmitForm =>
       /\ \A s \in Students : out'.blob[s].key <=> targets[s].tag # "nokey"
       /\ EntryIffResult]_vars

\* C13's case: an export with a student whose object holds one result, and a
\* student with a key and an empty object.
C13_Witness ==
  /\ out.written
  /\ \E s, t \in Students :
        /\ Cardinality(out.blob[s].entries) = 1
        /\ out.blob[t].key
        /\ out.blob[t].entries = {}

\* The effect C17 gives a click on a pending cell.
ClickEffect(c) ==
  "def" \in tbl[c].cls =>
    /\ "def" \notin tbl'[c].cls
    /\ "dis" \notin tbl'[c].cls
    /\ Running(c)'
    /\ \A d \in DOMAIN tbl \ {c} :
          "def" \in tbl[d].cls =>
            /\ "dis" \in tbl'[d].cls
            /\ "def" \notin tbl'[d].cls

\* The effect C17 gives the completion of a run.
CompleteEffect(c, result) ==
  /\ "fin" \in tbl'[c].cls
  /\ TargetOf(c)'.result = result
  /\ tbl'[c].colour = IF result = "success" THEN "green" ELSE "red"
  /\ \A d \in DOMAIN tbl :
        /\ "dis" \notin tbl'[d].cls
        /\ "dis" \in tbl[d].cls => "def" \in tbl'[d].cls

\* C17: a click moves a pending cell to running and disables every other
\* pending cell and header; a completion marks the cell finished, stores the
\* result, colours the cell by it and re-enables every disabled element; no
\* cell is finished without a stored result.
C17_CellLifecycle ==
  /\ [](\A c \in DOMAIN pending :
          "fin" \in tbl[c].cls => TargetOf(c).result # "undefined")
  /\ [][\A c \in DOMAIN pending :
          /\ (tbl[c].onclick = "makeTarget" /\ tbl'[c].colour = "yellow"
                 /\ (pending'[c] > pending[c] \/ Eval(c) = "null")
                 /\ makeTarget(c)) => ClickEffect(c)
          /\ \A result \in RunResults :
                (pending'[c] < pending[c] /\ Complete(c, result))
                   => CompleteEffect(c, result)]_vars

\* C17's case: a cell finished red with its failure stored, another cell
\* pending again after having been disabled.
C17_Witness ==
  \E c, d \in DOMAIN pending :
    /\ "fin" \in tbl[c].cls
    /\ tbl[c].colour = "red"
    /\ TargetOf(c).result = "failure"
    /\ tbl[d].cls = {"def"}
    /\ pending[c] = 0

\* The loops that are still polling.
Polling == {l \in 1..Len(loops) : ~loops[l].cleared}

\* C18: with cells started by run-all loops only, at most one cell of the
\* table is running, and none is marked pending while one is.
C18_OneRunning ==
  /\ Cardinality({c \in DOMAIN pending : Running(c)}) <= 1
  /\ \A c \in DOMAIN pending : pending[c] > 0 => Running(c) /\ pending[c] = 1
  /\ (\E c \in DOMAIN pending : Running(c)) =>
        \A d \in DOMAIN tbl : "def" \notin tbl[d].cls

\* C18's case: two loops over lists that overlap are polling, one cell
\* finished and one running.
C18_Witness ==
  /\ \E l, m \in Polling :
        /\ l # m
        /\ loops[l].tds # loops[m].tds
        /\ \E p \in 1..Len(loops[l].tds), q \in 1..Len(loops[m].tds) :
              loops[l].tds[p] = loops[m].tds[q]
  /\ \E c, d \in DOMAIN pending :
        /\ "fin" \in tbl[c].cls
        /\ Running(d)
        /\ pending[d] = 1

\* C19: whatever the clicks of the user and the loops do, no cell is marked
\* both pending and finished, and none is marked pending while a run of it
\* is in flight.
C19_MarksExclusive ==
  \A c \in DOMAIN pending :
    /\ ~({"def", "fin"} \subseteq tbl[c].cls)
    /\ pending[c] > 0 => "def" \notin tbl[c].cls

\* No cell is run again: a cell has one run in flight at most, and a
\* finished cell has none.
RunOnce ==
  \A c \in DOMAIN pending :
    /\ pending[c] <= 1
    /\ pending[c] = 1 => "fin" \notin tbl[c].cls

\* Loop l has been cleared with every cell of its list finished.
Done(l) ==
  /\ l <= Len(loops)
  /\ loops[l].cleared
  /\ \A q \in 1..Len(loops[l].tds) : "fin" \in tbl[loops[l].tds[q]].cls

\* Every invocation made so far is done.
AllDone == \A l \in 1..Len(loops) : Done(l)

\* C16: if every run started calls its completion handler, every run-all
\* invocation ends with the cells of its list finished and its interval
\* cleared, whatever other invocations are active (from some moment on
\* every invocation made is done), and no finished cell is run again.
C16_RunAllTerminates ==
  [](~stuck) =>
    /\ []RunOnce
    /\ <>[]AllDone

\* C16's case: two invocations over overlapping lists both cleared, every
\* run having completed.
C16_Witness ==
  /\ ~stuck
  /\ Len(loops) >= 2
  /\ loops[1].tds # loops[2].tds
  /\ Len(loops[1].tds) >= 2
  /\ Len(loops[2].tds) >= 2
  /\ Done(1)
  /\ Done(2)
  /\ \A c \in DOMAIN pending : pending[c] = 0

AnyDisabled == \E d \in DOMAIN tbl : "dis" \in tbl[d].cls

AnyRunning == \E c \in DOMAIN pending : Running(c)

\* C20: whenever a started cell has disabled the others, they are re-enabled
\* and the started cell leaves the running state, also when the fetch of
\* the file fails or the target has no runner.
C20_AlwaysReenabled ==
  /\ AnyDisabled ~> ~AnyDisabled
  /\ AnyRunning ~> ~AnyRunning

=============================================================================
